---------------------------- MODULE Spec2Model ----------------------------
(***************************************************************************)
(* A model of the meteorological pipeline of airport-meteo-api:            *)
(*   - the Collector (metarscanner/task.py): one run of main(), its        *)
(*     station tasks and the asyncio.gather that joins them;               *)
(*   - the Report Store (MeteoRepository) over the metars table;           *)
(*   - the Aggregation Engine (MeteoService.get_stats) and its router;     *)
(*   - the lifetime of the API process (lifespan, init_db, the database    *)
(*     connection);                                                        *)
(*   - the delete operations of the directory repositories.                *)
(* An Optional[T] value is a sequence of length at most one: <<>> is None  *)
(* (SQL NULL), <<v>> is the value v.                                       *)
(***************************************************************************)
EXTENDS Integers, Sequences, FiniteSets, TLC

VARIABLES
    directory,    \* what GET /airport/all answers in this run: a list of airport dicts
    mainPc,       \* main(): "init" | "listing" | "gathering" | "returned" | "raised"
    mainError,    \* the exception main() raised, "none" otherwise
    sessionOpen,  \* the shared aiohttp.ClientSession is inside its `async with`
    listCalls,    \* number of GET /airport/all requests issued
    airports,     \* the list main() got from fetch_airports (<<>> before)
    taskPc,       \* per station task: "created" | "fetching" | "posting" | "done" | "raised" | "cancelled"
    fetched,      \* per station task: NoRequest | Pending | what the GET was answered
    posted,       \* per station task: NoRequest | Pending | what the POST was answered
    submitted,    \* per station task: the text sent to /meteo/create (<<>>: nothing sent)
    taskError,    \* per station task: the exception that ended it, "none" otherwise
    firstRaised,  \* the task whose exception asyncio.gather propagates (0: none yet)
    rows,         \* the metars table: a function from id to row
    nextId,       \* the next value of the serial primary key
    lastCall,     \* the last Report Store / Aggregation Engine call and what it returned
    pending,      \* per concurrent caller: the insert between its write and its read-back
    returned,     \* the last insert call of a concurrent caller that ended, and its outcome
    removed,      \* the ids of the rows a DELETE of a concurrent caller removed
    serverPc,     \* lifespan(): "stopped" | "starting" | "serving" | "failed"
    committed,    \* the metars table as committed in the database
    initPc,       \* init_db(): "idle" | "trying" | "sleeping" | "returned" | "raised"
    retries,      \* init_db(): its argument `retries`
    attempts,     \* init_db(): how each schema-creation attempt so far ended
    initError,    \* init_db(): the exception it raised, "none" otherwise
    utcnow,       \* the month of the clock (datetime.utcnow())
    tables,       \* the continents, countries and airports tables: per table the rows by id
    tableSerial   \* per directory table, the next value of its primary key

collectorVars == <<directory, mainPc, mainError, sessionOpen, listCalls, airports,
                   taskPc, fetched, posted, submitted, taskError, firstRaised>>
storeVars == <<rows, nextId>>
callerVars == <<pending, returned, removed>>
lifeVars == <<serverPc, committed, initPc, retries, attempts, initError>>
dirVars == <<tables, tableSerial>>
restVars == <<lifeVars, utcnow, dirVars>>
vars == <<collectorVars, storeVars, lastCall, callerVars, restVars>>

None == <<>>
Some(v) == <<v>>

(***************************************************************************)
(* Bounds of the model.                                                    *)
(***************************************************************************)
MaxStations == 3     \* stations in the directory's answer
MaxRows == 3         \* inserts into the metars table in one behaviour
MaxTime == 3         \* observation times are 1..MaxTime
MaxStatsRows == 2    \* inserts in one behaviour of the statistics
MaxCallers == 2      \* concurrent callers of the Report Store
MaxInserts == 2      \* inserts of the concurrent callers in one behaviour
MaxRetries == 3      \* the argument `retries` of a call of init_db is 0..MaxRetries
MaxMonths == 1       \* months the clock advances in one behaviour
MaxDirRows == 2      \* inserts into each table of the directory in one behaviour

RECURSIVE SeqsUpTo(_, _)
SeqsUpTo(S, n) ==
    IF n = 0 THEN {<<>>}
    ELSE LET shorter == SeqsUpTo(S, n - 1)
         IN  shorter \cup {Append(s, x) : s \in {t \in shorter : Len(t) = n - 1}, x \in S}

\* The tables of the directory: continents, countries, airports.
TableNames == {"continents", "countries", "airports"}

(***************************************************************************)
(*                              The Collector                              *)
(***************************************************************************)

\* GET /airport/all answers AirportDTO objects: icao_code is always present and a
\* string, possibly empty.
IcaoCodes == {"", "EPKK"}
Airport(code) == [name |-> "airport", icao_code |-> code]
Directories == {[i \in 1..Len(s) |-> Airport(s[i])] : s \in SeqsUpTo(IcaoCodes, MaxStations)}

\* The text of a response body is a sequence of characters; one token stands for the
\* characters of a line, "\n" is the line break.
NL == "\n"
Bodies == { <<>>,
            <<"EPKK 011200Z">>,
            <<"2024/01/01 12:00", NL>>,
            <<"2024/01/01 12:00", NL, "EPKK 011200Z", NL>>,
            <<"EPKK 011200Z", NL, "EPKK 011230Z", NL>> }

\* str.split("\n"): the pieces between the line breaks, always at least one.
RECURSIVE split(_)
split(text) ==
    IF \A k \in 1..Len(text) : text[k] # NL THEN <<text>>
    ELSE LET k == CHOOSE j \in 1..Len(text) :
                      text[j] = NL /\ \A h \in 1..(j - 1) : text[h] # NL
         IN  <<SubSeq(text, 1, k - 1)>> \o split(SubSeq(text, k + 1, Len(text)))

\* What the transport gives for one request: a response with a status, or an error.
Response(status, body) == [kind |-> "response", status |-> status, body |-> body]
TransportError(e) == [kind |-> e, status |-> 0, body |-> <<>>]
FetchOutcomes ==
    {Response(200, b) : b \in Bodies}
    \cup {Response(404, <<>>), TransportError("ClientConnectorError"),
          TransportError("TimeoutError")}
PostOutcomes ==
    {Response(201, <<>>), Response(500, <<>>),
     TransportError("ClientConnectorError"), TransportError("TimeoutError")}

NoRequest == [kind |-> "none", status |-> 0, body |-> <<>>]
Pending == [kind |-> "pending", status |-> 0, body |-> <<>>]

\* response.raise_for_status(): ClientResponseError for a status of 400 and more.
raise_for_status(response) == response.status >= 400

Returned(v) == [exc |-> "none", value |-> v]
Raised(e) == [exc |-> e, value |-> None]

\* fetch_metar: None on ClientResponseError, the element [1] of text.split("\n")
\* otherwise; anything else that is raised propagates.
fetch_metar(outcome) ==
    IF outcome.kind # "response" THEN Raised(outcome.kind)
    ELSE IF raise_for_status(outcome) THEN Returned(None)
    ELSE LET lines == split(outcome.body)
         IN  IF Len(lines) < 2 THEN Raised("IndexError")
             ELSE Returned(Some(lines[2]))

\* post_metar: ClientResponseError is printed and swallowed; anything else propagates.
post_metar(outcome) ==
    IF outcome.kind # "response" THEN Raised(outcome.kind)
    ELSE Returned(None)

\* (a variant for which every value is true)
Truthy_any(v) == TRUE

\* Python truthiness of `str | None`.
Truthy(v) == v # None /\ v[1] # <<>>

Tasks == 1..Len(airports)
Started(i) == taskPc[i] # "created"
Settled(i) == taskPc[i] \in {"done", "raised"}
RunEnded == mainPc \in {"returned", "raised"}

\* A task ends with an exception; gather propagates the first one.
TaskRaises(i, e) ==
    /\ taskPc' = [taskPc EXCEPT ![i] = "raised"]
    /\ taskError' = [taskError EXCEPT ![i] = e]
    /\ firstRaised' = IF firstRaised = 0 THEN i ELSE firstRaised

\* main(): the session is opened and the one station-list request is issued.
main_start ==
    /\ mainPc = "init"
    /\ mainPc' = "listing"
    /\ sessionOpen' = TRUE
    /\ listCalls' = listCalls + 1
    /\ UNCHANGED <<directory, mainError, airports, taskPc, fetched, posted, submitted,
                   taskError, firstRaised, storeVars, lastCall, callerVars, restVars>>

\* fetch_airports returns; main builds one process_airport coroutine per airport and
\* awaits asyncio.gather(*tasks).
fetch_airports_returns ==
    /\ mainPc = "listing"
    /\ airports' = directory
    /\ taskPc' = [i \in 1..Len(directory) |-> "created"]
    /\ fetched' = [i \in 1..Len(directory) |-> NoRequest]
    /\ posted' = [i \in 1..Len(directory) |-> NoRequest]
    /\ submitted' = [i \in 1..Len(directory) |-> None]
    /\ taskError' = [i \in 1..Len(directory) |-> "none"]
    /\ mainPc' = "gathering"
    /\ UNCHANGED <<directory, mainError, sessionOpen, listCalls, firstRaised,
                   storeVars, lastCall, callerVars, restVars>>

\* (a variant that requests the list again)
fetch_airports_raises_retrying(e) ==
    /\ mainPc = "listing"
    /\ listCalls' = listCalls + 1
    /\ UNCHANGED <<directory, mainPc, mainError, sessionOpen, airports, taskPc, fetched,
                   posted, submitted, taskError, firstRaised, storeVars, lastCall,
                   callerVars, restVars>>

\* fetch_airports raises (raise_for_status, or the transport): nothing in main catches
\* it; the `async with` closes the session on the way out.
fetch_airports_raises(e) ==
    /\ mainPc = "listing"
    /\ mainPc' = "raised"
    /\ mainError' = e
    /\ sessionOpen' = FALSE
    /\ UNCHANGED <<directory, listCalls, airports, taskPc, fetched, posted, submitted,
                   taskError, firstRaised, storeVars, lastCall, callerVars, restVars>>

\* (a variant without the test of the code: every station is fetched)
process_airport_start_unconditional(i) ==
    /\ mainPc = "gathering"
    /\ taskPc[i] = "created"
    /\ \A j \in 1..(i - 1) : Started(j)
    /\ taskPc' = [taskPc EXCEPT ![i] = "fetching"]
    /\ fetched' = [fetched EXCEPT ![i] = Pending]
    /\ UNCHANGED <<directory, mainPc, mainError, sessionOpen, listCalls, airports,
                   posted, submitted, taskError, firstRaised, storeVars, lastCall, callerVars, restVars>>

\* process_airport up to its first await. The event loop runs the tasks gather
\* created in order, each up to its first suspension, before anything else resumes.
process_airport_start(i) ==
    /\ mainPc = "gathering"
    /\ taskPc[i] = "created"
    /\ \A j \in 1..(i - 1) : Started(j)
    /\ IF airports[i].icao_code = ""
       THEN /\ taskPc' = [taskPc EXCEPT ![i] = "done"]
            /\ UNCHANGED fetched
       ELSE /\ taskPc' = [taskPc EXCEPT ![i] = "fetching"]
            /\ fetched' = [fetched EXCEPT ![i] = Pending]
    /\ UNCHANGED <<directory, mainPc, mainError, sessionOpen, listCalls, airports,
                   posted, submitted, taskError, firstRaised, storeVars, lastCall, callerVars, restVars>>

\* The GET of task i settles: fetch_metar returns or raises, and process_airport
\* goes on to post_metar when it got a non-empty text.
process_airport_fetched(i, outcome) ==
    /\ mainPc = "gathering"
    /\ \A j \in Tasks : Started(j)
    /\ taskPc[i] = "fetching"
    /\ fetched' = [fetched EXCEPT ![i] = outcome]
    /\ LET r == fetch_metar(outcome)
       IN  IF r.exc # "none"
           THEN /\ TaskRaises(i, r.exc)
                /\ UNCHANGED <<posted, submitted>>
           ELSE IF Truthy(r.value)
           THEN /\ taskPc' = [taskPc EXCEPT ![i] = "posting"]
                /\ posted' = [posted EXCEPT ![i] = Pending]
                /\ submitted' = [submitted EXCEPT ![i] = r.value]
                /\ UNCHANGED <<taskError, firstRaised>>
           ELSE /\ taskPc' = [taskPc EXCEPT ![i] = "done"]
                /\ UNCHANGED <<posted, submitted, taskError, firstRaised>>
    /\ UNCHANGED <<directory, mainPc, mainError, sessionOpen, listCalls, airports,
                   storeVars, lastCall, callerVars, restVars>>

\* The POST of task i settles.
process_airport_posted(i, outcome) ==
    /\ mainPc = "gathering"
    /\ taskPc[i] = "posting"
    /\ posted' = [posted EXCEPT ![i] = outcome]
    /\ LET r == post_metar(outcome)
       IN  IF r.exc # "none"
           THEN TaskRaises(i, r.exc)
           ELSE /\ taskPc' = [taskPc EXCEPT ![i] = "done"]
                /\ UNCHANGED <<taskError, firstRaised>>
    /\ UNCHANGED <<directory, mainPc, mainError, sessionOpen, listCalls, airports,
                   fetched, submitted, storeVars, lastCall, callerVars, restVars>>

\* asyncio.gather(*tasks) without return_exceptions: it returns when every task
\* has returned ...
gather_returns ==
    /\ mainPc = "gathering"
    /\ \A i \in Tasks : taskPc[i] = "done"
    /\ mainPc' = "returned"
    /\ sessionOpen' = FALSE
    /\ UNCHANGED <<directory, mainError, listCalls, airports, taskPc, fetched, posted,
                   submitted, taskError, firstRaised, storeVars, lastCall, callerVars, restVars>>

\* ... and raises the first exception of a task as soon as there is one, without
\* waiting for or cancelling the others; main leaves the `async with`.
gather_raises ==
    /\ mainPc = "gathering"
    /\ \A j \in Tasks : Started(j)
    /\ firstRaised # 0
    /\ mainPc' = "raised"
    /\ mainError' = taskError[firstRaised]
    /\ sessionOpen' = FALSE
    /\ UNCHANGED <<directory, listCalls, airports, taskPc, fetched, posted,
                   submitted, taskError, firstRaised, storeVars, lastCall, callerVars, restVars>>

\* asyncio.run(main()) tears down what main left behind: a task still awaiting its
\* request is cancelled, or finds the session closed under it.
TeardownErrors == {"CancelledError", "ClientConnectionError"}
task_torn_down(i, e) ==
    /\ mainPc = "raised"
    /\ taskPc[i] \in {"fetching", "posting"}
    /\ taskPc' = [taskPc EXCEPT ![i] = IF e = "CancelledError" THEN "cancelled" ELSE "raised"]
    /\ taskError' = [taskError EXCEPT ![i] = e]
    /\ UNCHANGED <<directory, mainPc, mainError, sessionOpen, listCalls, airports,
                   fetched, posted, submitted, firstRaised, storeVars, lastCall, callerVars, restVars>>

ListErrors == {"ClientResponseError", "ClientConnectorError"}

NextCollector ==
    \/ main_start
    \/ fetch_airports_returns
    \/ \E e \in ListErrors : fetch_airports_raises(e)
    \/ \E i \in Tasks : process_airport_start(i)
    \/ \E i \in Tasks, o \in FetchOutcomes : process_airport_fetched(i, o)
    \/ \E i \in Tasks, o \in PostOutcomes : process_airport_posted(i, o)
    \/ gather_returns
    \/ gather_raises
    \/ \E i \in Tasks, e \in TeardownErrors : task_torn_down(i, e)

InitCollector ==
    /\ directory \in Directories
    /\ mainPc = "init"
    /\ mainError = "none"
    /\ sessionOpen = FALSE
    /\ listCalls = 0
    /\ airports = <<>>
    /\ taskPc = <<>>
    /\ fetched = <<>>
    /\ posted = <<>>
    /\ submitted = <<>>
    /\ taskError = <<>>
    /\ firstRaised = 0

(***************************************************************************)
(*                            The Report Store                             *)
(***************************************************************************)

Stations == {"EPKK", "EPWA"}
\* A datetime is a number of 1..MaxTime (a datetime is never falsy in Python).
Times == 1..MaxTime
OptionalTimes == {None} \cup {Some(t) : t \in Times}

\* The five columns get_stats aggregates, in the order it evaluates them.
Metrics == <<"temp", "wind_speed", "rvr", "dew_point", "qnh">>

\* What the decoded measurements of a report can look like.
Profiles ==
    { [temp |-> Some(10), wind_speed |-> Some(5), rvr |-> Some(9000),
       dew_point |-> Some(4), qnh |-> Some(1013)],
      [temp |-> Some(21), wind_speed |-> Some(8), rvr |-> Some(10000),
       dew_point |-> Some(7), qnh |-> Some(1020)],
      [temp |-> None, wind_speed |-> Some(5), rvr |-> Some(9000),
       dew_point |-> Some(4), qnh |-> Some(1013)],
      [temp |-> Some(21), wind_speed |-> Some(8), rvr |-> Some(10000),
       dew_point |-> Some(7), qnh |-> None] }
FullProfile == [temp |-> Some(10), wind_speed |-> Some(5), rvr |-> Some(9000),
                dew_point |-> Some(4), qnh |-> Some(1013)]

\* class MetarReportIn: every field Optional; sky is the list of (cover, height)
\* pairs from_text_report builds.
MetarReportIn(icao, date, m) ==
    [icao_code |-> Some(icao), date_time |-> date,
     wind_speed |-> m.wind_speed, wind_direction |-> Some(270),
     wind_var_from |-> None, wind_var_to |-> None, wind_gust |-> None,
     rvr |-> m.rvr, rvr_direction |-> None, dew_point |-> m.dew_point,
     sky |-> Some(<< <<"BKN", Some(3000)>> >>), temp |-> m.temp, qnh |-> m.qnh]

\* The sky column is a PickleType: the list is stored pickled.
pickle_dumps(v) == <<"pickle", v>>
\* (a variant that answers the column's default, the empty list)
pickle_loads_default(b) == <<>>

pickle_loads(b) == b[2]

\* metar_table.insert().values(**report.model_dump()) with the serial id.
InsertedRow(id, report) ==
    [f \in DOMAIN report \cup {"id"} |->
        IF f = "id" THEN id
        ELSE IF f = "sky" /\ report.sky # None THEN Some(pickle_dumps(report.sky[1]))
        ELSE report[f]]

\* _map_report: None for no record, else the record as a dict with sky unpickled.
\* A record that is there is Some(row).
_map_report(report) ==
    IF report = None THEN None
    ELSE LET row == report[1]
         IN  Some([row EXCEPT !.sky = Some(pickle_loads(row.sky[1]))])

\* class MetarReport(MetarReportIn): the mapped dict with its id.
MetarReport(report_dict) == report_dict

\* ORDER BY ... ASC of PostgreSQL: NULL sorts last, equal keys come in any order.
\* keyOf gives each id its sort key; the result is the set of the possible orders.
\* (a variant that sorts descending)
KeyBefore_descending(a, b) == a # None /\ (b = None \/ a[1] > b[1])

KeyBefore(a, b) == a # None /\ (b = None \/ a[1] < b[1])
RECURSIVE OrderedAsc(_, _)
OrderedAsc(ids, keyOf) ==
    IF ids = {} THEN {<<>>}
    ELSE UNION { {<<m>> \o rest : rest \in OrderedAsc(ids \ {m}, keyOf)} :
                 m \in {x \in ids : \A y \in ids : ~KeyBefore(keyOf[y], keyOf[x])} }

\* The conditions get_by_airport collects; a comparison with NULL is not true.
QueryConditions(start_date, end_date) ==
    {"icao_code"}
    \cup (IF start_date # None THEN {"start_date"} ELSE {})
    \cup (IF end_date # None THEN {"end_date"} ELSE {})
\* (a variant with the lower bound exclusive)
ConditionHolds_exclusive(c, row, icao_code, start_date, end_date) ==
    CASE c = "icao_code" -> row.icao_code = Some(icao_code)
      [] c = "start_date" -> row.date_time # None /\ row.date_time[1] > start_date[1]
      [] c = "end_date" -> row.date_time # None /\ row.date_time[1] <= end_date[1]

ConditionHolds(c, row, icao_code, start_date, end_date) ==
    CASE c = "icao_code" -> row.icao_code = Some(icao_code)
      [] c = "start_date" -> row.date_time # None /\ row.date_time[1] >= start_date[1]
      [] c = "end_date" -> row.date_time # None /\ row.date_time[1] <= end_date[1]

\* (a variant that leaves the rows without date_time out of every answer)
get_by_airport_dated(tbl, icao_code, start_date, end_date) ==
    LET conds == QueryConditions(start_date, end_date)
        ids == {id \in DOMAIN tbl :
                   /\ tbl[id].date_time # None
                   /\ \A c \in conds :
                         ConditionHolds(c, tbl[id], icao_code, start_date, end_date)}
        key == [id \in ids |-> tbl[id].date_time]
        mapped == [id \in ids |-> MetarReport(_map_report(Some(tbl[id]))[1])]
    IN  {[k \in 1..Len(s) |-> mapped[s[k]]] : s \in OrderedAsc(ids, key)}

\* get_by_airport: the rows meeting every condition, ordered by date_time, each
\* mapped to a MetarReport. The set of the lists the database may answer.
get_by_airport(tbl, icao_code, start_date, end_date) ==
    LET conds == QueryConditions(start_date, end_date)
        ids == {id \in DOMAIN tbl :
                   \A c \in conds : ConditionHolds(c, tbl[id], icao_code, start_date, end_date)}
        key == [id \in ids |-> tbl[id].date_time]
        mapped == [id \in ids |-> MetarReport(_map_report(Some(tbl[id]))[1])]
    IN  {[k \in 1..Len(s) |-> mapped[s[k]]] : s \in OrderedAsc(ids, key)}

\* get_by_id: the report with that id, or None.
get_by_id(tbl, report_id) ==
    LET report == IF report_id \in DOMAIN tbl THEN Some(tbl[report_id]) ELSE None
        report_dict == _map_report(report)
    IN  IF report # None THEN Some(MetarReport(report_dict[1])) ELSE None

\* (a variant ordered by date_time, as get_by_airport is)
get_all_reports_by_date(tbl) ==
    LET key == [id \in DOMAIN tbl |-> tbl[id].date_time]
        mapped == [id \in DOMAIN tbl |-> MetarReport(_map_report(Some(tbl[id]))[1])]
    IN  {[k \in 1..Len(s) |-> mapped[s[k]]] : s \in OrderedAsc(DOMAIN tbl, key)}

\* get_all_reports: every row, ordered by id.
get_all_reports(tbl) ==
    LET key == [id \in DOMAIN tbl |-> Some(id)]
        mapped == [id \in DOMAIN tbl |-> MetarReport(_map_report(Some(tbl[id]))[1])]
    IN  {[k \in 1..Len(s) |-> mapped[s[k]]] : s \in OrderedAsc(DOMAIN tbl, key)}

NoCall == [op |-> "none"]

\* add_report: the insert, then the read-back of the new id.
add_report(report) ==
    /\ nextId <= MaxRows
    /\ LET tbl == [id \in DOMAIN rows \cup {nextId} |->
                      IF id = nextId THEN InsertedRow(nextId, report) ELSE rows[id]]
       IN  /\ rows' = tbl
           /\ lastCall' = [op |-> "add_report", report |-> report, exc |-> "none",
                           result |-> get_by_id(tbl, nextId)]
    /\ nextId' = nextId + 1
    /\ UNCHANGED <<collectorVars, callerVars, restVars>>

\* remove_report: `self.get_by_id(report_id)` is not awaited, so the test is of a
\* coroutine object, which is true: the DELETE is always executed. Returns None.
remove_report(report_id) ==
    /\ rows' = [id \in DOMAIN rows \ {report_id} |-> rows[id]]
    /\ lastCall' = [op |-> "remove_report", report_id |-> report_id, exc |-> "none",
                    result |-> None]
    /\ UNCHANGED <<collectorVars, nextId, callerVars, restVars>>

get_by_airport_call(icao_code, start_date, end_date) ==
    /\ \E reports \in get_by_airport(rows, icao_code, start_date, end_date) :
          lastCall' = [op |-> "get_by_airport", icao_code |-> icao_code,
                       start_date |-> start_date, end_date |-> end_date,
                       exc |-> "none", result |-> reports]
    /\ UNCHANGED <<collectorVars, storeVars, callerVars, restVars>>

\* get_all_reports as a request of its own.
get_all_reports_call ==
    /\ \E reports \in get_all_reports(rows) :
          lastCall' = [op |-> "get_all_reports", exc |-> "none", result |-> reports]
    /\ UNCHANGED <<collectorVars, storeVars, callerVars, restVars>>

\* (a variant that takes the row it answers out of the table)
get_by_id_call_taking(report_id) ==
    /\ lastCall' = [op |-> "get_by_id", report_id |-> report_id, exc |-> "none",
                    result |-> get_by_id(rows, report_id)]
    /\ rows' = [id \in DOMAIN rows \ {report_id} |-> rows[id]]
    /\ UNCHANGED <<collectorVars, nextId, callerVars, restVars>>

\* get_by_id as a request of its own.
get_by_id_call(report_id) ==
    /\ lastCall' = [op |-> "get_by_id", report_id |-> report_id, exc |-> "none",
                    result |-> get_by_id(rows, report_id)]
    /\ UNCHANGED <<collectorVars, storeVars, callerVars, restVars>>

\* The reports the query behaviours insert: the queried station at any time or
\* none, and one report of another station.
QueriedStation == "EPKK"
OtherStation == "EPWA"
QueryReports ==
    {MetarReportIn(QueriedStation, d, FullProfile) : d \in OptionalTimes}
    \cup {MetarReportIn(OtherStation, Some(1), FullProfile)}

NextQuery ==
    \/ \E r \in QueryReports : add_report(r)
    \/ \E id \in 1..MaxRows : remove_report(id)
    \/ \E a \in OptionalTimes, b \in OptionalTimes :
          get_by_airport_call(QueriedStation, a, b)

(***************************************************************************)
(*                            The Report Parser                            *)
(***************************************************************************)

\* A report text is its groups (tokens): each is absent from the text, well
\* formed with a value, or present but not of any group's grammar.
Group(state, value) == [state |-> state, value |-> value]
Absent == Group("absent", None)
Good(v) == Group("ok", Some(v))
Corrupt == Group("bad", None)
GroupNames == {"station", "time", "wind", "vis", "temp", "press", "sky"}
Text(station, time, wind, temp) ==
    [station |-> station, time |-> time, wind |-> wind, vis |-> Good(9000),
     temp |-> temp, press |-> Good(1013), sky |-> Absent]

\* The time group of a report gives day of the month, hour and minute (the
\* numbers of Times); the datetime of it in a month.
DateTime(month, day_time) == month * (MaxTime + 1) + day_time

\* Metar.Metar(report, strict), called without month and year: the groups that
\* match set the attributes, the others stay None (sky: an empty list); the time
\* group is completed with the month and year of the clock; a group that matches
\* nothing is an unparsed group, for which the strict parser raises ParserError.
Metar(report, strict) ==
    IF strict /\ \E g \in GroupNames : report[g].state = "bad"
    THEN Raised("ParserError")
    ELSE Returned(
        [station_id |-> report.station.value,
         time |-> IF report.time.state = "ok"
                  THEN Some(DateTime(utcnow, report.time.value[1])) ELSE None,
         wind_speed |-> report.wind.value,
         wind_dir |-> IF report.wind.state = "ok" THEN Some(270) ELSE None,
         wind_dir_from |-> None, wind_dir_to |-> None, wind_gust |-> None,
         vis |-> report.vis.value, vis_dir |-> None,
         dewpt |-> IF report.temp.state = "ok" THEN Some(4) ELSE None,
         sky |-> IF report.sky.state = "ok" THEN report.sky.value[1] ELSE <<>>,
         temp |-> report.temp.value, press |-> report.press.value])

\* MetarReportIn.from_text_report: Metar.Metar(report) with its default, strict;
\* every attribute is copied, None included; what Metar raises propagates.
from_text_report(report) ==
    LET parsed == Metar(report, TRUE)
        obs == parsed.value
    IN  IF parsed.exc # "none" THEN parsed
        ELSE Returned(
            [icao_code |-> obs.station_id, date_time |-> obs.time,
             wind_speed |-> obs.wind_speed, wind_direction |-> obs.wind_dir,
             wind_var_from |-> obs.wind_dir_from, wind_var_to |-> obs.wind_dir_to,
             wind_gust |-> obs.wind_gust, rvr |-> obs.vis,
             rvr_direction |-> obs.vis_dir, dew_point |-> obs.dewpt,
             sky |-> Some([k \in 1..Len(obs.sky) |->
                             <<obs.sky[k][1], obs.sky[k][2]>>]),
             temp |-> obs.temp, qnh |-> obs.press])

(***************************************************************************)
(*                  The Report Store under concurrent callers              *)
(***************************************************************************)

\* The requests being served at once. An insert is two awaits, the INSERT and
\* the SELECT of get_by_id; what other requests execute in between is seen.
Callers == 1..MaxCallers

\* (a variant that numbers a new row by the count of the rows)
NewId_count(tbl, serial) == Cardinality(DOMAIN tbl) + 1

\* The id of database.execute(insert): the next value of the serial key.
NewId(tbl, serial) == serial

\* (a variant whose INSERT writes the report over the rows of the table, too)
Inserted_over(tbl, id, report) ==
    [i \in DOMAIN tbl \cup {id} |-> InsertedRow(i, report)]

\* The table after the INSERT of the report under the id.
Inserted(tbl, id, report) ==
    [i \in DOMAIN tbl \cup {id} |-> IF i = id THEN InsertedRow(id, report) ELSE tbl[i]]

InsertCall(op, text, report, id) ==
    [op |-> op, text |-> text, report |-> report, id |-> id]
Idle(c) == pending[c].op = "none"

\* add_report up to its second await: the INSERT is executed.
add_report_execute(c, report) ==
    /\ Idle(c)
    /\ nextId <= MaxInserts
    /\ LET id == NewId(rows, nextId)
       IN  /\ rows' = Inserted(rows, id, report)
           /\ pending' = [pending EXCEPT ![c] = InsertCall("add_report", None, Some(report), id)]
    /\ nextId' = nextId + 1
    /\ UNCHANGED <<collectorVars, lastCall, returned, removed, restVars>>

\* add_report from its second await: get_by_id of the new id, returned as it is.
add_report_return(c) ==
    /\ pending[c].op = "add_report"
    /\ returned' = pending[c] @@ [exc |-> "none",
                                  result |-> get_by_id(rows, pending[c].id)]
    /\ pending' = [pending EXCEPT ![c] = NoCall]
    /\ UNCHANGED <<collectorVars, storeVars, lastCall, removed, restVars>>

\* add_text_report up to its second await: the text is parsed, which may raise,
\* and the INSERT is executed.
add_text_report_execute(c, text_report) ==
    /\ Idle(c)
    /\ nextId <= MaxInserts
    /\ \E report_object \in {from_text_report(text_report)} :
          IF report_object.exc # "none"
          THEN /\ returned' = InsertCall("add_text_report", Some(text_report), None, 0)
                                @@ [exc |-> report_object.exc, result |-> None]
               /\ UNCHANGED <<storeVars, pending>>
          ELSE LET id == NewId(rows, nextId)
               IN  /\ rows' = Inserted(rows, id, report_object.value)
                   /\ nextId' = nextId + 1
                   /\ pending' = [pending EXCEPT ![c] =
                                     InsertCall("add_text_report", Some(text_report),
                                                Some(report_object.value), id)]
                   /\ UNCHANGED returned
    /\ UNCHANGED <<collectorVars, lastCall, removed, restVars>>

\* add_text_report from its second await: get_by_id of the new id;
\* `MetarReport(**dict(new_report)) if new_report else None`.
add_text_report_return(c) ==
    /\ pending[c].op = "add_text_report"
    /\ LET new_report == get_by_id(rows, pending[c].id)
       IN  returned' = pending[c] @@
                       [exc |-> "none",
                        result |-> IF new_report # None
                                   THEN Some(MetarReport(new_report[1])) ELSE None]
    /\ pending' = [pending EXCEPT ![c] = NoCall]
    /\ UNCHANGED <<collectorVars, storeVars, lastCall, removed, restVars>>

\* add_text_report with no other request in between: the text is parsed, the
\* INSERT executed and the new id read back.
add_text_report(text_report) ==
    /\ nextId <= MaxInserts
    /\ \E report_object \in {from_text_report(text_report)} :
          IF report_object.exc # "none"
          THEN /\ lastCall' = [op |-> "add_text_report", text_report |-> text_report,
                               exc |-> report_object.exc, result |-> None]
               /\ UNCHANGED storeVars
          ELSE LET id == NewId(rows, nextId)
                   tbl == Inserted(rows, id, report_object.value)
                   new_report == get_by_id(tbl, id)
               IN  /\ rows' = tbl
                   /\ nextId' = nextId + 1
                   /\ lastCall' = [op |-> "add_text_report", text_report |-> text_report,
                                   exc |-> "none",
                                   result |-> IF new_report # None
                                              THEN Some(MetarReport(new_report[1]))
                                              ELSE None]
    /\ UNCHANGED <<collectorVars, callerVars, restVars>>

\* remove_report of another request (see remove_report): the DELETE is executed.
remove_report_execute(report_id) ==
    /\ rows' = [id \in DOMAIN rows \ {report_id} |-> rows[id]]
    /\ removed' = removed \cup ({report_id} \cap DOMAIN rows)
    /\ UNCHANGED <<collectorVars, nextId, lastCall, pending, returned, restVars>>

\* The clock reaches the next month; no request is being served that long.
month_passes ==
    /\ utcnow < MaxMonths
    /\ \A c \in Callers : Idle(c)
    /\ utcnow' = utcnow + 1
    /\ UNCHANGED <<collectorVars, storeVars, lastCall, callerVars, lifeVars, dirVars>>

\* What the concurrent callers insert: reports with and without a station, a
\* time, a measurement, sky layers; texts with a station, without one, with a
\* time that is not there, with a wind group that is not one.
StoreReports ==
    { MetarReportIn(QueriedStation, Some(1), FullProfile),
      [MetarReportIn(QueriedStation, None, FullProfile) EXCEPT
          !.sky = Some(<<>>), !.temp = None],
      [MetarReportIn(QueriedStation, Some(1), FullProfile) EXCEPT
          !.icao_code = None, !.sky = Some(<< <<"FEW", None>>, <<"BKN", Some(3000)>> >>)] }
StoreTexts ==
    { Text(Good(QueriedStation), Good(1), Good(5), Good(10)),
      Text(Absent, Good(1), Good(5), Good(10)),
      Text(Good(QueriedStation), Absent, Absent, Good(10)),
      Text(Good(QueriedStation), Good(1), Corrupt, Good(10)),
      Text(Corrupt, Good(1), Good(5), Good(10)) }

NextStore ==
    \/ \E c \in Callers, r \in StoreReports : add_report_execute(c, r)
    \/ \E c \in Callers : add_report_return(c)
    \/ \E c \in Callers, t \in StoreTexts : add_text_report_execute(c, t)
    \/ \E c \in Callers : add_text_report_return(c)
    \/ \E id \in 1..MaxInserts : remove_report_execute(id)
    \/ month_passes

(***************************************************************************)
(*                         The Aggregation Engine                          *)
(***************************************************************************)

RECURSIVE SumOf(_)
SumOf(values) == IF values = <<>> THEN 0 ELSE values[1][1] + SumOf(Tail(values))
HasNone(values) == \E k \in 1..Len(values) : values[k] = None

\* A mean is kept as the fraction num / den; numpy's nan is 0 / 0.
Fraction(num, den) == [num |-> num, den |-> den]
NaN == Fraction(0, 0)

\* numpy.array(values).mean(): nan (and a warning) for no values; an array that
\* holds a None is an array of objects, and adding or dividing None is a TypeError.
np_mean(values) ==
    IF Len(values) = 0 THEN Returned(Some(NaN))
    ELSE IF HasNone(values) THEN Raised("TypeError")
    ELSE Returned(Some(Fraction(SumOf(values), Len(values))))

\* numpy.array(values).min(): ValueError for no values; a lone object is returned
\* as it is, None is not comparable with another object.
np_min(values) ==
    IF Len(values) = 0 THEN Raised("ValueError")
    ELSE IF HasNone(values)
         THEN IF Len(values) = 1 THEN Returned(None) ELSE Raised("TypeError")
    ELSE Returned(Some(CHOOSE v \in {values[k][1] : k \in 1..Len(values)} :
                           \A k \in 1..Len(values) : v <= values[k][1]))

np_max(values) ==
    IF Len(values) = 0 THEN Raised("ValueError")
    ELSE IF HasNone(values)
         THEN IF Len(values) = 1 THEN Returned(None) ELSE Raised("TypeError")
    ELSE Returned(Some(CHOOSE v \in {values[k][1] : k \in 1..Len(values)} :
                           \A k \in 1..Len(values) : v >= values[k][1]))

\* The list get_stats collects for one column, absent values included.
Column(reports, m) == [k \in 1..Len(reports) |-> reports[k][m]]

\* The n-th keyword argument of MeteoStatsDTO(...) after the window, in the order
\* they are evaluated: mean, min, max of each column.
StatCall(reports, n) ==
    LET values == Column(reports, Metrics[((n - 1) \div 3) + 1])
    IN  CASE n % 3 = 1 -> np_mean(values)
          [] n % 3 = 2 -> np_min(values)
          [] OTHER -> np_max(values)

\* The arguments are evaluated one after the other from the n-th on; the first
\* exception ends the evaluation. stat holds the values so far.
RECURSIVE StatCalls(_, _, _)
StatCalls(reports, n, stat) ==
    IF n > 3 * Len(Metrics) THEN Returned(stat)
    ELSE LET r == StatCall(reports, n)
         IN  IF r.exc # "none" THEN r
             ELSE StatCalls(reports, n + 1, Append(stat, r.value))

\* class MeteoStatsDTO: start_time and end_time are datetime, every statistic a
\* float, none of them Optional: pydantic refuses a None (ValidationError).
MeteoStatsDTO(start_time, end_time, icao_code, stat) ==
    IF start_time = None \/ end_time = None \/ \E n \in DOMAIN stat : stat[n] = None
    THEN Raised("ValidationError")
    ELSE Returned(
        [start_time |-> start_time[1], end_time |-> end_time[1], icao_code |-> icao_code,
         avg_temperature |-> stat[1][1], min_temperature |-> stat[2][1],
         max_temperature |-> stat[3][1],
         avg_wind_speed |-> stat[4][1], min_wind_speed |-> stat[5][1],
         max_wind_speed |-> stat[6][1],
         avg_rvr |-> stat[7][1], min_rvr |-> stat[8][1], max_rvr |-> stat[9][1],
         avg_dew_point |-> stat[10][1], min_dew_point |-> stat[11][1],
         max_dew_point |-> stat[12][1],
         avg_qhn |-> stat[13][1], min_qhn |-> stat[14][1], max_qhn |-> stat[15][1]])

\* MeteoService.get_stats on the reports the repository answered: an exception
\* of a numpy call ends it, else the DTO is built.
get_stats(reports, icao_code, start_date, end_date) ==
    LET calls == StatCalls(reports, 1, <<>>)
    IN  IF calls.exc # "none" THEN calls
        ELSE MeteoStatsDTO(start_date, end_date, icao_code, calls.value)

\* datetime.strptime of the router: the text of a time gives that time.
TimeText(t) == ToString(t)
strptime(text) ==
    IF \E t \in Times : TimeText(t) = text
    THEN Returned(Some(CHOOSE t \in Times : TimeText(t) = text))
    ELSE Raised("ValueError")

\* GET /meteo/stats: 400 without an ICAO code; a given start or end is parsed; the
\* service asks the repository for the reports and aggregates them.
get_stats_request(icao, start, end) ==
    /\ LET start_date == IF start # None /\ start[1] # "" THEN strptime(start[1])
                         ELSE Returned(None)
           end_date == IF end # None /\ end[1] # "" THEN strptime(end[1])
                       ELSE Returned(None)
           request == [op |-> "get_stats", icao |-> icao, start |-> start, end |-> end]
       IN  IF icao = None \/ icao[1] = ""
           THEN lastCall' = request @@
                            [exc |-> "HTTPException", reports |-> <<>>, result |-> None]
           ELSE IF start_date.exc # "none" \/ end_date.exc # "none"
           THEN lastCall' = request @@
                            [exc |-> "ValueError", reports |-> <<>>, result |-> None]
           ELSE \E reports \in get_by_airport(rows, icao[1], start_date.value,
                                              end_date.value) :
                   \E r \in {get_stats(reports, icao[1], start_date.value, end_date.value)} :
                       lastCall' = request @@
                           [exc |-> r.exc, reports |-> reports,
                            result |-> IF r.exc = "none" THEN Some(r.value) ELSE None]
    /\ UNCHANGED <<collectorVars, storeVars, callerVars, restVars>>

\* The reports the statistics behaviours insert, and the requests they make.
StatsReports ==
    {MetarReportIn(QueriedStation, Some(t), m) : t \in {1, 2}, m \in Profiles}
StatsIcaos == {None, Some(""), Some(QueriedStation)}
StatsBounds == {None, Some("")} \cup {Some(TimeText(t)) : t \in Times}

NextStats ==
    \/ \E r \in StatsReports : nextId <= MaxStatsRows /\ add_report(r)
    \/ \E i \in StatsIcaos, a \in StatsBounds, b \in StatsBounds :
          get_stats_request(i, a, b)

(***************************************************************************)
(*                 The API serving readers and writers at once             *)
(***************************************************************************)

\* What is inserted while the reads go on: a full report of the queried
\* station, and one of it without time and temperature.
ServeReports ==
    { MetarReportIn(QueriedStation, Some(1), FullProfile),
      [MetarReportIn(QueriedStation, None, FullProfile) EXCEPT !.temp = None] }
\* The windows of the queries and of the statistics requests.
ServeWindows == {<<None, None>>, <<Some(1), Some(1)>>}

NextServe ==
    \/ \E c \in Callers, r \in ServeReports : add_report_execute(c, r)
    \/ \E c \in Callers : add_report_return(c)
    \/ \E id \in 1..MaxInserts : remove_report_execute(id)
    \/ \E id \in 1..MaxInserts : get_by_id_call(id)
    \/ get_all_reports_call
    \/ \E w \in ServeWindows : get_by_airport_call(QueriedStation, w[1], w[2])
    \/ \E w \in ServeWindows :
          get_stats_request(Some(QueriedStation),
                            IF w[1] = None THEN None ELSE Some(TimeText(w[1][1])),
                            IF w[2] = None THEN None ELSE Some(TimeText(w[2][1])))

\* The whole table listed between inserts and deletes, one request at a time.
NextList ==
    \/ \E r \in QueryReports : add_report(r)
    \/ \E id \in 1..MaxRows : remove_report(id)
    \/ get_all_reports_call

(***************************************************************************)
(*                     The lifetime of the API process                     *)
(***************************************************************************)

\* databases.Database(db_uri, force_rollback=True): connect() opens one
\* connection for every query and begins a transaction on it that disconnect()
\* rolls back; nothing executed through `database` is ever committed.
force_rollback == TRUE

\* init_db(retries: int = 5, ...): what lifespan's init_db() runs with.
DefaultRetries == 5

\* How one attempt (engine.begin(), create_all) ends: it succeeds, it raises one
\* of the classes of the except clause, or it raises something else.
CaughtErrors ==
    {"OperationalError", "DatabaseError", "CannotConnectNowError",
     "ConnectionDoesNotExistError"}
OtherErrors == {"OSError", "CancelledError"}
AttemptOutcomes == {"ok"} \cup CaughtErrors \cup OtherErrors

\* init_db up to its first await: `for attempt in range(retries)` starts the
\* first attempt, or with an empty range falls through to the raise.
init_db_enter(r) ==
    /\ retries' = r
    /\ attempts' = <<>>
    /\ initPc' = IF r > 0 THEN "trying" ELSE "raised"
    /\ initError' = IF r > 0 THEN "none" ELSE "ConnectionError"

\* A call init_db(retries, delay) of its own, the API process not running.
init_db(r) ==
    /\ serverPc = "stopped"
    /\ initPc \in {"idle", "returned", "raised"}
    /\ init_db_enter(r)
    /\ UNCHANGED <<collectorVars, storeVars, lastCall, callerVars, serverPc, committed,
                   utcnow, dirVars>>

\* The attempt under way ends: `return` after a success, print and sleep after
\* a caught error, and any other exception leaves init_db.
init_db_attempt(outcome) ==
    /\ initPc = "trying"
    /\ attempts' = Append(attempts, outcome)
    /\ initPc' = IF outcome = "ok" THEN "returned"
                 ELSE IF outcome \in CaughtErrors THEN "sleeping" ELSE "raised"
    /\ initError' = IF outcome \in OtherErrors THEN outcome ELSE "none"
    /\ UNCHANGED <<collectorVars, storeVars, lastCall, callerVars, serverPc, committed,
                   retries, utcnow, dirVars>>

\* (a variant that starts one more attempt when the range is used up)
init_db_slept_once_more ==
    /\ initPc = "sleeping"
    /\ initPc' = IF Len(attempts) <= retries THEN "trying" ELSE "raised"
    /\ initError' = IF Len(attempts) <= retries THEN "none" ELSE "ConnectionError"
    /\ UNCHANGED <<collectorVars, storeVars, lastCall, callerVars, serverPc, committed,
                   retries, attempts, utcnow, dirVars>>

\* asyncio.sleep(delay) returns: the next attempt of the range, or after the
\* last one the ConnectionError.
init_db_slept ==
    /\ initPc = "sleeping"
    /\ initPc' = IF Len(attempts) < retries THEN "trying" ELSE "raised"
    /\ initError' = IF Len(attempts) < retries THEN "none" ELSE "ConnectionError"
    /\ UNCHANGED <<collectorVars, storeVars, lastCall, callerVars, serverPc, committed,
                   retries, attempts, utcnow, dirVars>>

\* lifespan up to its first await: the process starts and calls init_db().
lifespan_startup ==
    /\ serverPc \in {"stopped", "failed"}
    /\ initPc \in {"idle", "returned", "raised"}
    /\ serverPc' = "starting"
    /\ init_db_enter(DefaultRetries)
    /\ UNCHANGED <<collectorVars, storeVars, lastCall, callerVars, committed,
                   utcnow, dirVars>>

\* init_db returned (its frame is gone): database.connect(), and the application
\* serves requests. The connection sees the committed table.
lifespan_connect ==
    /\ serverPc = "starting"
    /\ initPc = "returned"
    /\ serverPc' = "serving"
    /\ initPc' = "idle"
    /\ retries' = 0
    /\ attempts' = <<>>
    /\ rows' = committed
    /\ UNCHANGED <<collectorVars, nextId, lastCall, callerVars, committed, initError,
                   utcnow, dirVars>>

\* init_db raised: nothing in lifespan catches it, the startup fails.
lifespan_startup_fails ==
    /\ serverPc = "starting"
    /\ initPc = "raised"
    /\ serverPc' = "failed"
    /\ UNCHANGED <<collectorVars, storeVars, lastCall, callerVars, committed, initPc,
                   retries, attempts, initError, utcnow, dirVars>>

\* lifespan after its yield: database.disconnect(). With force_rollback the
\* transaction of the connection is rolled back; without it every statement
\* was committed when it was executed. The serial key is not rolled back.
lifespan_shutdown ==
    /\ serverPc = "serving"
    /\ serverPc' = "stopped"
    /\ rows' = IF force_rollback THEN committed ELSE rows
    /\ committed' = IF force_rollback THEN committed ELSE rows
    /\ UNCHANGED <<collectorVars, nextId, lastCall, callerVars, initPc, retries,
                   attempts, initError, utcnow, dirVars>>

Serving == serverPc = "serving"

NextInitDb ==
    \/ \E r \in 0..MaxRetries : init_db(r)
    \/ \E o \in AttemptOutcomes : init_db_attempt(o)
    \/ init_db_slept

NextLifespan ==
    \/ lifespan_startup
    \/ \E o \in AttemptOutcomes : init_db_attempt(o)
    \/ init_db_slept
    \/ lifespan_connect
    \/ lifespan_startup_fails
    \/ \E t \in StoreTexts : Serving /\ add_text_report(t)
    \/ \E id \in 1..MaxInserts : Serving /\ get_by_id_call(id)
    \/ \E id \in 1..MaxInserts : Serving /\ remove_report(id)
    \/ lifespan_shutdown

(***************************************************************************)
(*          The directory: continents, countries and airports              *)
(***************************************************************************)

\* countries.continent_id and airports.country_id are foreign keys, not null,
\* with no ON DELETE rule. A row is kept by the id of the row it refers to
\* (0 for a continent, which refers to none).
Parent == [countries |-> "continents", airports |-> "countries"]
Child == [continents |-> "countries", countries |-> "airports"]
DirectoryRow(id, parent_id) == [id |-> id, parent_id |-> parent_id]
Referenced(t, id) ==
    /\ t \in DOMAIN Child
    /\ \E c \in DOMAIN tables[Child[t]] : tables[Child[t]][c].parent_id = id

\* table.insert().values(**data.model_dump()), then _get_by_id of the new id.
\* The statement takes the next value of the key whether or not it succeeds.
DirectoryAdd(t, op, parent_id) ==
    /\ tableSerial[t] <= MaxDirRows
    /\ tableSerial' = [tableSerial EXCEPT ![t] = @ + 1]
    /\ IF t \in DOMAIN Parent /\ parent_id \notin DOMAIN tables[Parent[t]]
       THEN /\ lastCall' = [op |-> op, table |-> t, id |-> tableSerial[t],
                            exc |-> "ForeignKeyViolationError", result |-> None]
            /\ UNCHANGED tables
       ELSE /\ tables' = [tables EXCEPT ![t] =
                             [i \in DOMAIN @ \cup {tableSerial[t]} |->
                                 IF i = tableSerial[t]
                                 THEN DirectoryRow(i, parent_id) ELSE @[i]]]
            /\ lastCall' = [op |-> op, table |-> t, id |-> tableSerial[t],
                            exc |-> "none",
                            result |-> Some(DirectoryRow(tableSerial[t], parent_id))]
    /\ UNCHANGED <<collectorVars, storeVars, callerVars, lifeVars, utcnow>>

\* `if self._get_by_id(id):` tests the coroutine object _get_by_id returns, not
\* awaited, which is true whatever the table holds: the DELETE is always
\* executed and True returned; `return False` is never reached. The DELETE of
\* a row that another row refers to raises.
DirectoryDelete(t, op, id) ==
    /\ IF Referenced(t, id)
       THEN /\ lastCall' = [op |-> op, table |-> t, id |-> id,
                            exc |-> "ForeignKeyViolationError", result |-> None]
            /\ UNCHANGED tables
       ELSE /\ tables' = [tables EXCEPT ![t] = [i \in DOMAIN @ \ {id} |-> @[i]]]
            /\ lastCall' = [op |-> op, table |-> t, id |-> id,
                            exc |-> "none", result |-> Some(TRUE)]
    /\ UNCHANGED <<collectorVars, storeVars, callerVars, lifeVars, utcnow, tableSerial>>

add_continent == DirectoryAdd("continents", "add_continent", 0)
add_country(continent_id) == DirectoryAdd("countries", "add_country", continent_id)
add_airport(country_id) == DirectoryAdd("airports", "add_airport", country_id)
delete_continent(continent_id) ==
    DirectoryDelete("continents", "delete_continent", continent_id)
delete_country(country_id) == DirectoryDelete("countries", "delete_country", country_id)
delete_airport(airport_id) == DirectoryDelete("airports", "delete_airport", airport_id)

DirIds == 1..MaxDirRows

NextDirectory ==
    \/ add_continent
    \/ \E id \in DirIds : add_country(id)
    \/ \E id \in DirIds : add_airport(id)
    \/ \E id \in DirIds : delete_continent(id)
    \/ \E id \in DirIds : delete_country(id)
    \/ \E id \in DirIds : delete_airport(id)

InitStore ==
    /\ rows = <<>>
    /\ nextId = 1
    /\ lastCall = NoCall
    /\ pending = [c \in Callers |-> NoCall]
    /\ returned = NoCall
    /\ removed = {}

\* The API process is up: lifespan has reached its yield.
InitLife ==
    /\ serverPc = "serving"
    /\ committed = <<>>
    /\ initPc = "idle"
    /\ retries = 0
    /\ attempts = <<>>
    /\ initError = "none"
    /\ utcnow = 0
    /\ tables = [t \in TableNames |-> <<>>]
    /\ tableSerial = [t \in TableNames |-> 1]

Init == InitCollector /\ InitStore /\ InitLife

SpecCollector == Init /\ [][NextCollector]_vars
\* The API server alone: the Collector does not run.
InitServer == Init /\ directory = <<>>
SpecQuery == InitServer /\ [][NextQuery]_vars
SpecStats == InitServer /\ [][NextStats]_vars
SpecStore == InitServer /\ [][NextStore]_vars
SpecServe == InitServer /\ [][NextServe]_vars
SpecList == InitServer /\ [][NextList]_vars
SpecDirectory == InitServer /\ [][NextDirectory]_vars
\* The API process from before its start.
InitStopped ==
    /\ InitCollector /\ directory = <<>>
    /\ InitStore
    /\ serverPc = "stopped"
    /\ committed = <<>>
    /\ initPc = "idle"
    /\ retries = 0
    /\ attempts = <<>>
    /\ initError = "none"
    /\ utcnow = 0
    /\ tables = [t \in TableNames |-> <<>>]
    /\ tableSerial = [t \in TableNames |-> 1]
SpecLifespan == InitStopped /\ [][NextLifespan]_vars
\* Calls of init_db on their own. An attempt under way ends, with a success or
\* an error, and a sleep returns.
SpecInitDb ==
    /\ InitStopped
    /\ [][NextInitDb]_vars
    /\ WF_vars(\E o \in AttemptOutcomes : init_db_attempt(o))
    /\ WF_vars(init_db_slept)


(***************************************************************************)
(*                      Claims about the Collector                         *)
(***************************************************************************)

\* The body of a 200 answer holds a report line fetch_metar can hand on.
HasReportLine(body) == Len(split(body)) >= 2 /\ split(body)[2] # <<>>
Answered(outcome) == outcome.kind \notin {"none", "pending"}
FetchSucceeded(i) ==
    /\ fetched[i].kind = "response"
    /\ ~raise_for_status(fetched[i])
    /\ HasReportLine(fetched[i].body)
\* An error status, a connection error, a timeout, or a body with no report line.
FetchFailed(i) == Answered(fetched[i]) /\ ~FetchSucceeded(i)
\* The store request was answered with an error status, or never got through.
StoreFailed(i) ==
    /\ Answered(posted[i])
    /\ (posted[i].kind # "response" \/ raise_for_status(posted[i]))
StoreRequested(i) == posted[i].kind # "none"
HasCode(i) == airports[i].icao_code # ""
\* The run was aborted by the exception of task i.
AbortedBy(i) == mainPc = "raised" /\ firstRaised = i

\* C1: a failed fetch of one station (error status, connection error, timeout, no
\* report line) never aborts the batch: the run does not raise because of it, and
\* when the run has ended every other station with a code has had its fetch
\* answered and, if that fetch succeeded, its store request issued.
C1_FailedFetchNeverAborts ==
    \A i \in Tasks :
        FetchFailed(i) =>
            /\ ~AbortedBy(i)
            /\ (RunEnded /\ (firstRaised = 0 \/ FetchFailed(firstRaised))) =>
                   /\ mainPc = "returned"
                   /\ \A j \in Tasks \ {i} :
                          HasCode(j) =>
                              /\ Answered(fetched[j])
                              /\ FetchSucceeded(j) => StoreRequested(j)

\* C2: when the run has ended over a list in which every station's fetch either
\* succeeded or failed (and no store request failed), the run returned without
\* raising and a store request was issued for exactly the stations whose fetch
\* succeeded.
C2_OneStorePerSuccessfulFetch ==
    ( /\ RunEnded
      /\ Len(airports) >= 1
      /\ \A i \in Tasks : FetchSucceeded(i) \/ FetchFailed(i)
      /\ \A i \in Tasks : ~StoreFailed(i) )
    => /\ mainPc = "returned"
       /\ \A i \in Tasks : StoreRequested(i) <=> FetchSucceeded(i)
       /\ Cardinality({i \in Tasks : StoreRequested(i)})
            = Cardinality({i \in Tasks : FetchSucceeded(i)})

\* C3: when the run has ended (main returned or raised, the session closed), every
\* station task has settled: none is still in flight and none is left to be
\* cancelled.
C3_RunEndsAfterAllSettled ==
    RunEnded => \A i \in Tasks : Settled(i)

\* C4: a fetch that times out makes its own task a skipped failure and nothing
\* more: the task returns, the run is not aborted by it, and no sibling task is
\* cancelled or cut off in a run it aborted.
C4_TimeoutIsASkippedFailure ==
    \A i \in Tasks :
        fetched[i].kind = "TimeoutError" =>
            /\ taskPc[i] = "done"
            /\ ~AbortedBy(i)
            /\ \A j \in Tasks \ {i} : taskError[j] \notin TeardownErrors

\* C5: a store request that fails (error status, or the endpoint unreachable) is
\* treated like a failed fetch: its task returns, the run is not aborted by it,
\* and when the run has ended every other station whose fetch succeeded has had
\* its store request issued.
C5_FailedStoreIsSkipped ==
    \A i \in Tasks :
        StoreFailed(i) =>
            /\ taskPc[i] = "done"
            /\ ~AbortedBy(i)
            /\ (RunEnded /\ (firstRaised = 0 \/ StoreFailed(firstRaised))) =>
                   \A j \in Tasks \ {i} : FetchSucceeded(j) => StoreRequested(j)


\* C19: a station whose code is empty is skipped: no fetch and no store request
\* is issued for it, its task ends without an exception and the run does not
\* raise because of it; and the other stations are processed: once a fetch has
\* been answered or the run has ended, the fetch of every station with a code
\* has been issued.
C19_EmptyCodeIsSkipped ==
    /\ \A i \in Tasks :
          ~HasCode(i) =>
              /\ fetched[i] = NoRequest
              /\ posted[i] = NoRequest
              /\ submitted[i] = None
              /\ taskPc[i] \in {"created", "done"}
              /\ taskError[i] = "none"
              /\ ~AbortedBy(i)
    /\ (RunEnded \/ \E i \in Tasks : Answered(fetched[i])) =>
          \A j \in Tasks : HasCode(j) => fetched[j] # NoRequest

\* The run has returned; its second station had no code and was skipped, the
\* stations before and after it were fetched and stored.
C19_Witness ==
    /\ mainPc = "returned"
    /\ Len(airports) = 3
    /\ HasCode(1) /\ ~HasCode(2) /\ HasCode(3)
    /\ taskPc[2] = "done"
    /\ FetchSucceeded(1) /\ FetchSucceeded(3)
    /\ posted[1].status = 201 /\ posted[3].status = 201

\* C28: no fetch of a station is issued before the one station-list call has
\* returned (the list then is the directory's answer), and a store request is
\* issued for a station only when its own fetch has been answered with content
\* from which fetch_metar returned a non-empty line, that line being what is
\* submitted; never for a station whose fetch was not issued, is still awaited,
\* or failed.
C28_FetchAfterListStoreAfterFetch ==
    /\ mainPc \in {"init", "listing"} => (fetched = <<>> /\ posted = <<>>)
    /\ \A i \in Tasks :
          fetched[i] # NoRequest =>
              /\ listCalls = 1
              /\ airports = directory
              /\ mainPc \notin {"init", "listing"}
    /\ \A i \in Tasks :
          StoreRequested(i) =>
              /\ fetched[i].kind = "response"
              /\ ~raise_for_status(fetched[i])
              /\ fetch_metar(fetched[i]) = Returned(submitted[i])
              /\ submitted[i] # None /\ submitted[i][1] # <<>>

\* Three station tasks interleave: the store request of the third is awaited,
\* the fetch of the first is still awaited, the second has been stored.
C28_Witness ==
    /\ Len(airports) = 3
    /\ taskPc[1] = "fetching"
    /\ taskPc[2] = "done" /\ posted[2].status = 201
    /\ taskPc[3] = "posting" /\ posted[3] = Pending

\* main has raised and no station task raised: the station-list call failed.
ListFailed == mainPc = "raised" /\ firstRaised = 0

\* C29: the station list is requested once per run, not again whatever its
\* answer; and when that call fails, main raises its error (an error status or
\* a transport error), the session is closed, and no station task was created:
\* no fetch and no store request is issued.
C29_FailedListEndsTheRun ==
    /\ listCalls = (IF mainPc = "init" THEN 0 ELSE 1)
    /\ ListFailed =>
          /\ mainError \in ListErrors
          /\ ~sessionOpen
          /\ airports = <<>>
          /\ taskPc = <<>>
          /\ fetched = <<>> /\ posted = <<>> /\ submitted = <<>>

\* The directory has three stations with a code, the list call was answered
\* with an error status, and the run has raised.
C29_Witness ==
    /\ ListFailed
    /\ mainError = "ClientResponseError"
    /\ Len(directory) = 3
    /\ \A i \in 1..3 : directory[i].icao_code # ""

\* The lines of a body that are reports: not empty and not the time stamp the
\* source puts before the report.
IsReportLine(line) == line # <<>> /\ line # <<"2024/01/01 12:00">>
ReportLines(body) == SelectSeq(split(body), IsReportLine)

\* C20: when the source answers content with a report line in it (content of a
\* single line included), the text submitted for storing is exactly the first
\* report line of the content.
C20_FirstReportLineSubmitted ==
    \A i \in Tasks :
        ( /\ fetched[i].kind = "response"
          /\ ~raise_for_status(fetched[i])
          /\ ReportLines(fetched[i].body) # <<>> )
        => submitted[i] = Some(ReportLines(fetched[i].body)[1])

(***************************************************************************)
(*                     Claims about the Report Store                       *)
(***************************************************************************)

\* d lies in [a, b], an absent bound leaving its side open; an absent d lies in
\* no interval with a bound.
InWindow(d, a, b) ==
    /\ a # None => (d # None /\ d[1] >= a[1])
    /\ b # None => (d # None /\ d[1] <= b[1])
\* The report is the stored row of its id, sky list unpickled.
IsStored(report) ==
    /\ report.id \in DOMAIN rows
    /\ \A f \in DOMAIN report \ {"sky"} : report[f] = rows[report.id][f]
    /\ rows[report.id].sky = Some(pickle_dumps(report.sky[1]))

C11_StrictlyOrdered ==
    lastCall.op = "get_by_airport" =>
        LET res == lastCall.result
        IN  \A k \in 1..(Len(res) - 1) :
               /\ res[k].date_time # None
               /\ res[k + 1].date_time # None
               /\ res[k].date_time[1] < res[k + 1].date_time[1]

\* C11 (amended): in every result of a query for one station, after any inserts
\* and deletes, no entry's observed_at is less than that of the entry before it;
\* entries of equal observed_at follow each other in either order, and entries
\* without observed_at come after all the others.
C11_NeverDescending ==
    lastCall.op = "get_by_airport" =>
        LET res == lastCall.result
        IN  \A k \in 1..(Len(res) - 1) :
               \/ res[k + 1].date_time = None
               \/ /\ res[k].date_time # None
                  /\ res[k].date_time[1] <= res[k + 1].date_time[1]

\* After three inserts, a query answered two Observations of equal
\* observed_at, the later inserted one first.
C11_Witness ==
    /\ lastCall.op = "get_by_airport"
    /\ Len(lastCall.result) = 2
    /\ lastCall.result[1].date_time = lastCall.result[2].date_time
    /\ lastCall.result[1].date_time # None
    /\ lastCall.result[1].id > lastCall.result[2].id
    /\ nextId > 3

IsInsert(call) == call.op \in {"add_report", "add_text_report"}
\* The ids the inserts in flight and the last ended insert were given.
InFlight == {c \in Callers : ~Idle(c)}
GivenIds ==
    {pending[c].id : c \in InFlight}
    \cup (IF IsInsert(returned) /\ returned.id # 0 THEN {returned.id} ELSE {})

C13_InsertNeverReturnsAbsent ==
    (IsInsert(returned) /\ returned.exc = "none") =>
        /\ returned.result # None
        /\ returned.result[1].id = returned.id

C15_DeleteTellsWhetherRemoved ==
    [][(lastCall'.op = "remove_report" /\ (lastCall' # lastCall \/ rows' # rows)) =>
          LET id == lastCall'.report_id
          IN  /\ lastCall'.result = Some(id \in DOMAIN rows)
              /\ id \notin DOMAIN rows'
              /\ id \notin DOMAIN rows => rows' = rows]_vars

\* C16: every stored Observation carries a station code.
C16_StationCodeAlwaysStored ==
    \A id \in DOMAIN rows : rows[id].icao_code # None

\* The report text lacks a station code or a time that can be decoded.
Undecodable(text) == text.station.state # "ok" \/ text.time.state # "ok"

\* C17: add_text_report of a text whose station code or time cannot be decoded
\* fails (MalformedReportError), produces no Observation and inserts no row.
C17_MalformedReportFails ==
    /\ \A c \in InFlight :
          pending[c].op = "add_text_report" => ~Undecodable(pending[c].text[1])
    /\ (returned.op = "add_text_report" /\ Undecodable(returned.text[1])) =>
          /\ returned.exc # "none"
          /\ returned.report = None
          /\ returned.id = 0

\* C18: a text with valid station and time groups and one corrupt measurement
\* group (wind) gives an Observation with that field absent and the other
\* decodable fields (temperature) present.
C18_FieldsDecodedIndependently ==
    ( /\ returned.op = "add_text_report"
      /\ ~Undecodable(returned.text[1])
      /\ returned.text[1].wind.state = "bad"
      /\ returned.text[1].temp.state = "ok" )
    => /\ returned.exc = "none"
       /\ returned.report # None
       /\ returned.report[1].wind_speed = None
       /\ returned.report[1].temp = returned.text[1].temp.value

\* The add_text_report calls in flight and the one that ended last, of those
\* that were given a row.
TextInserts ==
    {[text |-> pending[c].text[1], report |-> pending[c].report[1], id |-> pending[c].id] :
        c \in {d \in InFlight : pending[d].op = "add_text_report"}}
    \cup (IF returned.op = "add_text_report" /\ returned.id # 0
          THEN {[text |-> returned.text[1], report |-> returned.report[1],
                 id |-> returned.id]}
          ELSE {})

\* C23: no deduplication. Two add_text_report calls with the same text store
\* two Observations with distinct ids that are equal in every field but id, and
\* both stay in the store (until a delete removes them).
C23_SameTextStoredTwice ==
    \A x \in TextInserts, y \in TextInserts :
        (x # y /\ x.text = y.text) =>
            /\ x.id # y.id
            /\ x.report = y.report
            /\ \A z \in {x, y} :
                  /\ z.id \in DOMAIN rows \cup removed
                  /\ z.id \in DOMAIN rows => rows[z.id] = InsertedRow(z.id, z.report)

(***************************************************************************)
(*          Claims about the API serving readers and writers at once       *)
(***************************************************************************)

\* The list holds the Observation.
Holds(list, o) == \E k \in 1..Len(list) : list[k] = o

C24_StoredObservationsNeverChange ==
    [][\A id \in DOMAIN rows :
          /\ id \in DOMAIN rows' => get_by_id(rows', id) = get_by_id(rows, id)
          /\ id \notin DOMAIN rows' => id \in removed' \ removed]_vars

\* The Observation of id 1 was returned by its insert; since then another
\* insert was executed, its row deleted, and statistics were computed; get
\* still answers what the insert returned.
C24_Witness ==
    /\ IsInsert(returned) /\ returned.id = 1 /\ returned.result # None
    /\ InFlight # {}
    /\ removed = {2}
    /\ lastCall.op = "get_stats" /\ lastCall.reports # <<>>
    /\ get_by_id(rows, 1) = returned.result

ReadOps == {"get_by_id", "get_all_reports", "get_by_airport", "get_stats"}

\* C25: a get, list_all, query or compute_stats, whether it returns or raises,
\* leaves the stored Observations as they were: the same ids with the same
\* fields, and the same next id.
C25_ReadsLeaveTheStoreUnchanged ==
    [][(lastCall' # lastCall /\ lastCall'.op \in ReadOps) =>
          (rows' = rows /\ nextId' = nextId)]_vars

\* A statistics request over two stored Observations has raised, and both are
\* still stored.
C25_Witness ==
    /\ lastCall.op = "get_stats"
    /\ lastCall.exc # "none"
    /\ Len(lastCall.reports) = 2
    /\ \A k \in 1..2 : get_by_id(rows, lastCall.reports[k].id) = Some(lastCall.reports[k])

(***************************************************************************)
(*                   Claims about the Aggregation Engine                   *)
(***************************************************************************)

\* The last call was a statistics request that reached the service: a station
\* code was given and the given bounds were parsed.
ParsedBound(text) ==
    IF text = None \/ text[1] = "" THEN Returned(None) ELSE strptime(text[1])
Aggregated ==
    /\ lastCall.op = "get_stats"
    /\ lastCall.icao # None /\ lastCall.icao[1] # ""
    /\ ParsedBound(lastCall.start).exc = "none"
    /\ ParsedBound(lastCall.end).exc = "none"
BothBoundsGiven ==
    /\ ParsedBound(lastCall.start).value # None
    /\ ParsedBound(lastCall.end).value # None
MetricNames == {Metrics[n] : n \in DOMAIN Metrics}
\* The values of a metric that are present among the filtered reports.
PresentValues(m) ==
    SelectSeq(Column(lastCall.reports, m), LAMBDA v : v # None)
AbsentSomewhere(m) == HasNone(Column(lastCall.reports, m))
\* The DTO's fields of a metric: mean, min, max.
StatFields ==
    [temp |-> <<"avg_temperature", "min_temperature", "max_temperature">>,
     wind_speed |-> <<"avg_wind_speed", "min_wind_speed", "max_wind_speed">>,
     rvr |-> <<"avg_rvr", "min_rvr", "max_rvr">>,
     dew_point |-> <<"avg_dew_point", "min_dew_point", "max_dew_point">>,
     qnh |-> <<"avg_qhn", "min_qhn", "max_qhn">>]

\* C6: a statistics request for a station and window with no matching report
\* fails with the no-data error (NoDataError), not with an error of the numeric
\* computation and not with a summary.
C6_EmptyWindowIsNoDataError ==
    (Aggregated /\ lastCall.reports = <<>>) => lastCall.exc = "NoDataError"

\* C7: when a metric is present on one filtered report and absent on another
\* (every metric being present somewhere, both bounds given), the call succeeds
\* and reports for that metric the mean, min and max of the present values.
C7_AbsentValuesAreExcluded ==
    \A m \in MetricNames :
        ( /\ Aggregated /\ BothBoundsGiven
          /\ \A o \in MetricNames : PresentValues(o) # <<>>
          /\ AbsentSomewhere(m) )
        => /\ lastCall.exc = "none"
           /\ lastCall.result[1][StatFields[m][1]] = np_mean(PresentValues(m)).value[1]
           /\ lastCall.result[1][StatFields[m][2]] = np_min(PresentValues(m)).value[1]
           /\ lastCall.result[1][StatFields[m][3]] = np_max(PresentValues(m)).value[1]

\* C8: when the filtered set is not empty and every report in it lacks a metric
\* (both bounds given), the call does not fail as a whole: a summary with the
\* other metrics is still returned.
C8_MetricAbsentEverywhereIsPerMetric ==
    \A m \in MetricNames :
        ( /\ Aggregated /\ BothBoundsGiven
          /\ lastCall.reports # <<>>
          /\ PresentValues(m) = <<>> )
        => lastCall.exc = "none"

\* C9: a statistics request without a start bound or without an end bound, whose
\* filtered reports are not empty and have every metric present, succeeds.
C9_AbsentBoundIsAllTime ==
    ( /\ Aggregated /\ ~BothBoundsGiven
      /\ lastCall.reports # <<>>
      /\ \A m \in MetricNames : ~AbsentSomewhere(m) )
    => lastCall.exc = "none"

(***************************************************************************)
(*               Claims about the lifetime of the API process              *)
(***************************************************************************)

InitDbRunning == initPc \in {"trying", "sleeping"}
InitDbEnded == initPc \in {"returned", "raised"}
AllCaught(log) == \A k \in 1..Len(log) : log[k] \in CaughtErrors

\* What holds of a call of init_db(retries, delay) at every moment: it has made
\* at most `retries` attempts, and every attempt before the last one made
\* failed with a caught error; it has returned exactly when its last attempt
\* succeeded; it has raised ConnectionError exactly when it has ended after
\* `retries` attempts that all failed with caught errors; and when it has
\* raised anything else, that is the error of its last attempt, an error
\* outside the caught classes.
InitDbBounded ==
    initPc # "idle" =>
        /\ Len(attempts) <= retries
        /\ AllCaught(SubSeq(attempts, 1, Len(attempts) - 1))
        /\ initPc = "returned" <=> (attempts # <<>> /\ attempts[Len(attempts)] = "ok")
        /\ InitDbEnded =>
              (initError = "ConnectionError"
                  <=> (Len(attempts) = retries /\ AllCaught(attempts)))
        /\ (initPc = "raised" /\ initError # "ConnectionError") =>
              /\ attempts # <<>>
              /\ attempts[Len(attempts)] = initError
              /\ initError \in OtherErrors

\* C30: init_db(retries, delay) is a bounded retry loop (InitDbBounded at every
\* moment), and it always terminates: a call under way comes to return or
\* raise.
C30_InitDbIsABoundedRetryLoop ==
    /\ []InitDbBounded
    /\ InitDbRunning ~> InitDbEnded

\* init_db(3, delay) has raised ConnectionError after three attempts that
\* failed with three different caught errors.
C30_Witness ==
    /\ initPc = "raised" /\ initError = "ConnectionError"
    /\ retries = 3 /\ Len(attempts) = 3
    /\ AllCaught(attempts)
    /\ Cardinality({attempts[k] : k \in 1..3}) = 3

\* C21: an Observation whose insert completed is durable: over every step in
\* which the API process stops or starts again (the store connection is closed,
\* reopened), each stored Observation stays answered by get as it was and stays
\* in the answer of query for its station, whatever became of the other inserts.
C21_CompletedInsertIsDurable ==
    [][(serverPc' # serverPc) =>
          \A id \in DOMAIN rows :
              /\ get_by_id(rows', id) = get_by_id(rows, id)
              /\ rows[id].icao_code # None =>
                     \A res \in get_by_airport(rows', rows[id].icao_code[1], None, None) :
                         \E k \in 1..Len(res) : res[k].id = id]_vars

(***************************************************************************)
(*                       Claims about the directory                        *)
(***************************************************************************)

DeleteOps == {"delete_airport", "delete_continent", "delete_country"}

\* C27: a delete of the directory that returns tells the success of the
\* operation: True exactly when a row of the id existed, which is then removed,
\* and False when no row of that id exists.
C27_DirectoryDeleteTellsSuccess ==
    [][(lastCall'.op \in DeleteOps /\ lastCall'.exc = "none"
          /\ (lastCall' # lastCall \/ tables' # tables)) =>
          LET t == lastCall'.table
              id == lastCall'.id
          IN  /\ lastCall'.result = Some(id \in DOMAIN tables[t])
              /\ id \notin DOMAIN tables'[t]]_vars

=============================================================================
